---------------------------- MODULE Spec2Model ----------------------------
(***************************************************************************)
(* Model of PM_autoWeight.py: flattening a joint hierarchy into the        *)
(* pinocchio skeleton list, importing the solver's per-bone weights into   *)
(* the host skin binding, and the temporary-file handling of autoWeight.   *)
(*                                                                         *)
(* Python indices are kept 0-based: At(s, i) reads s[i] of a Python list   *)
(* held as a TLA+ sequence.  Weights are fixed-point numbers: Unit stands  *)
(* for 1.0.                                                                *)
(***************************************************************************)
EXTENDS Integers, Sequences, FiniteSets, TLC

(* ------------------------------ bounds -------------------------------- *)

\* Largest number of joints of a hierarchy.
MaxJoints == 3

\* Number of vertices of the mesh, and the largest number of weight lines.
MaxVerts == 2

\* Largest number of values on one line of the weight file.
MaxCols == 2

(* ------------------------------ state --------------------------------- *)

VARIABLES
    \* -- makePinocchioSkeletonList
    children,        \* host scene graph: joint -> its child joints, in host order
    rootJoint,       \* the joint the flattening starts from
    flat,            \* the call of makePinocchioSkeletonList: done, err, list
    \* -- pinocchioWeightsImport
    pc,              \* position in pinocchioWeightsImport
    err,             \* the exception the call ended with, or "none"
    skelList,        \* argument skelList: sequence of <<joint, parentIndex>>
    weightFile,      \* content of the weight file
    influences,      \* host: influence list of the skin, in host order
    origInfluences,  \* influence list before the call
    hostWeights,     \* host: vertex -> joint handle -> weight
    undoInfo,        \* host: the undo-history toggle
    origUndoInfo,    \* the toggle before the call
    undoFlushed,     \* host: flushUndo has been called
    confirm,         \* what confirmNonUndoableMethod() answers
    vertBoneWeights, \* local of the same name
    boneIndexToJointIndex,
    vertJointWeights,
    apiWeights,      \* MDoubleArray handed to setWeights
    apiJointIndices, \* MIntArray handed to setWeights
    undoState,       \* local: the saved toggle
    vertIndex,       \* fallback loop: next vertex
    cancelled,       \* fallback loop: it ended by the cancel check
    \* -- autoWeight
    apc,             \* position in autoWeight
    aerr,            \* the exception autoWeight propagates, or "none"
    files,           \* the interchange files that exist on disk
    KEEP_PINOC_INPUT_FILES

flatVars == <<children, rootJoint, flat>>

importVars == <<pc, err, skelList, weightFile, influences, origInfluences,
                hostWeights, undoInfo, origUndoInfo, undoFlushed, confirm,
                vertBoneWeights, boneIndexToJointIndex, vertJointWeights,
                apiWeights, apiJointIndices, undoState, vertIndex, cancelled>>

autoVars == <<apc, aerr, files, KEEP_PINOC_INPUT_FILES>>

\* What the call is given, and what the host held when it was made.
inputVars == <<skelList, weightFile, origInfluences, origUndoInfo, confirm>>

\* The locals of the write paths.
writeVars == <<apiWeights, apiJointIndices, undoState, vertIndex, cancelled>>

\* The host's undo machinery.
undoVars == <<undoInfo, undoFlushed>>

vars == <<flatVars, importVars, autoVars>>

(* ----------------------------- helpers -------------------------------- *)

\* s[i] of a Python list.
At(s, i) == s[i + 1]

\* The list s with s[i] = v done.
SetAt(s, i, v) == [s EXCEPT ![i + 1] = v]

\* [v] * n
Repeat(v, n) == [i \in 1..n |-> v]

RECURSIVE SumSeq(_)
SumSeq(s) == IF s = <<>> THEN 0 ELSE Head(s) + SumSeq(Tail(s))

Range(s) == {s[i] : i \in 1..Len(s)}

(* -------------------- makePinocchioSkeletonList ----------------------- *)

\* The interpreter's recursion limit, scaled to the model: deeper than any
\* tree of MaxJoints joints.
RecursionLimit == MaxJoints + 1

\* Mutation: the children are given the parent's own parent index.
ChildParentIndex_Stale(newIndex, newJointParent) == newJointParent

\* Line 86: the index the recursion passes to each child as its parent index.
ChildParentIndex(newIndex, newJointParent) == newIndex

RECURSIVE _makePinocchioSkeletonList(_, _, _, _, _)
RECURSIVE VisitChildren(_, _, _, _, _, _)

\* Lines 78-87.  r.ok is FALSE when the recursion ran into the recursion
\* limit (RuntimeError: maximum recursion depth exceeded); r.list is the
\* list built.
_makePinocchioSkeletonList(ch, list, newJoint, newJointParent, depth) ==
    IF depth > RecursionLimit
    THEN [ok |-> FALSE, list |-> list]
    ELSE LET newIndex == Len(list)
             appended == Append(list, <<newJoint, newJointParent>>)
         IN  VisitChildren(ch, appended, ch[newJoint], 1,
                           ChildParentIndex(newIndex, newJointParent), depth)

\* Lines 85-86: the loop over jointChildren.
VisitChildren(ch, list, jointChildren, i, parentIndex, depth) ==
    IF i > Len(jointChildren)
    THEN [ok |-> TRUE, list |-> list]
    ELSE LET r == _makePinocchioSkeletonList(ch, list, jointChildren[i],
                                             parentIndex, depth + 1)
         IN  IF r.ok
             THEN VisitChildren(ch, r.list, jointChildren, i + 1,
                                parentIndex, depth)
             ELSE r

\* Lines 69-76.
makePinocchioSkeletonList(ch, root) ==
    _makePinocchioSkeletonList(ch, <<>>, root, -1, 1)

(* ------------------------- joint hierarchies -------------------------- *)

Perms(n) == {s \in [1..n -> 1..n] : \A i, j \in 1..n : s[i] = s[j] => i = j}

RECURSIVE Reaches(_, _, _, _)
\* Following parent links from j reaches root r within k steps.
Reaches(p, j, r, k) ==
    IF j = r THEN TRUE
    ELSE IF k = 0 THEN FALSE
    ELSE Reaches(p, p[j], r, k - 1)

\* Parent functions of the trees on joints 1..n rooted at r.
TreeParents(n, r) ==
    {p \in [(1..n) \ {r} -> 1..n] : \A j \in (1..n) \ {r} : Reaches(p, j, r, n)}

\* cmds.listRelatives(j, children=True): the children of j in host order.
ListRelatives(n, p, r, order) ==
    [j \in 1..n |->
        SelectSeq(order, LAMBDA c : c # r /\ p[c] = j)]

\* The joint trees on joints 1..n rooted at r, in every child order.
JointTreesOf(n, r) ==
    {[children |-> ListRelatives(n, p, r, order), root |-> r] :
        p \in TreeParents(n, r), order \in Perms(n)}

\* Every joint tree with at most MaxJoints joints.
JointTrees ==
    UNION {UNION {JointTreesOf(n, r) : r \in 1..n} : n \in 1..MaxJoints}

\* A hierarchy that is no tree: a tree with one more parent-child link u -> v
\* (v instanced under a second parent, or a link back to an ancestor).
WithLink(g, u, v) ==
    [g EXCEPT !.children[u] = Append(g.children[u], v)]

\* The links between two joints that a hierarchy does not have yet.
NewLinks(g) ==
    {uv \in (DOMAIN g.children) \X (DOMAIN g.children) :
        uv[1] # uv[2] /\ uv[2] \notin Range(g.children[uv[1]])}

JointGraphs ==
    JointTrees \cup
    UNION {{WithLink(g, uv[1], uv[2]) : uv \in NewLinks(g)} : g \in JointTrees}

IsTree == [children |-> children, root |-> rootJoint] \in JointTrees

FlatPending == [done |-> FALSE, err |-> "none", list |-> <<>>]

FlatIdle ==
    /\ children = <<>>
    /\ rootJoint = 0
    /\ flat = FlatPending

InitFlatten_graph ==
    \E g \in JointGraphs :
        /\ children = g.children
        /\ rootJoint = g.root
        /\ flat = FlatPending

\* A call of makePinocchioSkeletonList(rootJoint).
Flatten ==
    /\ ~flat.done
    /\ rootJoint # 0
    /\ LET r == makePinocchioSkeletonList(children, rootJoint)
       IN  flat' = [done |-> TRUE,
                    err |-> IF r.ok THEN "none" ELSE "RuntimeError",
                    list |-> IF r.ok THEN r.list ELSE <<>>]
    /\ UNCHANGED <<children, rootJoint, importVars, autoVars>>

(* ----------------------- pinocchioWeightsImport ----------------------- *)

\* 1.0 as a fixed-point weight (line 126 compares a line's sum with 1).
Unit == 1

\* The values a weight takes in the model: 0.0 and 1.0.
WeightValues == 0..Unit

\* The vertices of the mesh.
MeshVerts == 0..(MaxVerts - 1)

\* A joint that is in the scene but not in the skeleton being weighted.
OtherJoint == MaxJoints + 1

Handles == 1..OtherJoint

\* A line of the weight file as readPinocchioWeights parses it: its floats,
\* or <<>> for a line float() rejects (an empty line, a stray token).
FileLines ==
    {<<>>} \cup UNION {[1..c -> WeightValues] : c \in 1..MaxCols}

\* The weight file: unreadable, or a sequence of lines.
WeightFiles ==
    {[readable |-> FALSE, lines |-> <<>>]} \cup
    {[readable |-> TRUE, lines |-> l] :
        l \in UNION {[1..n -> FileLines] : n \in 0..MaxVerts}}

\* The skeletons handed to the import: flattened joint trees.  Joint handles
\* are opaque, so each tree shape is taken once, with its joints named in
\* list order from 1.
SkeletonLists ==
    {makePinocchioSkeletonList(t.children, t.root).list : t \in
        {g \in JointTrees :
            LET l == makePinocchioSkeletonList(g.children, g.root).list
            IN  \A i \in 1..Len(l) : l[i][1] = i}}

Reverse(s) == [i \in 1..Len(s) |-> s[Len(s) + 1 - i]]

\* The influence lists the skin may have before the call, for a skeleton of
\* joints 1..n: all of them in list order, all in another order, with one
\* more influence first, only the last joint, only a joint that is not in
\* the skeleton.
InfluenceLists(n) ==
    LET all == [i \in 1..n |-> i]
    IN  {all, Reverse(all), <<OtherJoint>> \o Reverse(all), <<n>>,
         <<OtherJoint>>}

\* The weights before the call: every vertex bound to the first influence.
PriorWeights(infl) ==
    [v \in MeshVerts |-> [h \in Handles |-> IF h = infl[1] THEN Unit ELSE 0]]

ZeroWeights == [v \in MeshVerts |-> [h \in Handles |-> 0]]

numVertices == Len(vertBoneWeights)
numBones == Len(vertBoneWeights[1])
numJoints == Len(skelList)
numWeights == numVertices * numBones

\* Line 92.
pinocInfluences == [i \in 1..Len(skelList) |-> skelList[i][1]]

\* Lines 286-291.
nodeIn(node, nodeList) == \E i \in 1..Len(nodeList) : nodeList[i] = node

\* Lines 293-298: the first index of node in nodeList, -1 for None.
getNodeIndex(node, nodeList) ==
    IF nodeIn(node, nodeList)
    THEN (CHOOSE i \in 1..Len(nodeList) :
            /\ nodeList[i] = node
            /\ \A k \in 1..(i - 1) : nodeList[k] # node) - 1
    ELSE -1

\* Lines 107-108 and 126-128: assert(cond, msg) asserts a two-element tuple,
\* which is true whatever cond is.
AssertTuple(cond) == TRUE

\* Line 126: the condition inside the assertion.
Normalized(boneWeights) == 10 * (IF SumSeq(boneWeights) >= Unit
                                 THEN SumSeq(boneWeights) - Unit
                                 ELSE Unit - SumSeq(boneWeights)) < Unit

ImportIdle ==
    /\ pc = "idle"
    /\ err = "none"
    /\ skelList = <<>>
    /\ weightFile = [readable |-> FALSE, lines |-> <<>>]
    /\ influences = <<>>
    /\ origInfluences = <<>>
    /\ hostWeights = ZeroWeights
    /\ undoInfo = TRUE
    /\ origUndoInfo = TRUE
    /\ undoFlushed = FALSE
    /\ confirm = TRUE
    /\ vertBoneWeights = <<>>
    /\ boneIndexToJointIndex = <<>>
    /\ vertJointWeights = <<>>
    /\ apiWeights = <<>>
    /\ apiJointIndices = <<>>
    /\ undoState = TRUE
    /\ vertIndex = 0
    /\ cancelled = FALSE

\* The state when pinocchioWeightsImport is called.  confirm is the answer of
\* the hook confirmNonUndoableMethod (lines 199-200), which selects the write
\* path at line 147; the module ships it answering True.
InitImport ==
    /\ pc = "ensure"
    /\ err = "none"
    /\ skelList \in SkeletonLists
    /\ weightFile \in WeightFiles
    /\ influences \in InfluenceLists(Len(skelList))
    /\ origInfluences = influences
    /\ hostWeights = PriorWeights(influences)
    /\ undoInfo \in BOOLEAN
    /\ origUndoInfo = undoInfo
    /\ undoFlushed = FALSE
    /\ confirm \in BOOLEAN
    /\ vertBoneWeights = <<>>
    /\ boneIndexToJointIndex = <<>>
    /\ vertJointWeights = <<>>
    /\ apiWeights = <<>>
    /\ apiJointIndices = <<>>
    /\ undoState = TRUE
    /\ vertIndex = 0
    /\ cancelled = FALSE

\* The call ends with exception e.
Raise(e) == pc' = "done" /\ err' = e

\* Lines 91-95: every joint of skelList that is no influence yet is added.
EnsureInfluences ==
    /\ pc = "ensure"
    /\ influences' = influences \o
           SelectSeq(pinocInfluences, LAMBDA j : ~nodeIn(j, influences))
    /\ pc' = "read"
    /\ UNCHANGED <<err, inputVars, hostWeights, undoVars, vertBoneWeights,
                   boneIndexToJointIndex, vertJointWeights, writeVars,
                   flatVars, autoVars>>

\* Lines 99 and 202-210: open() fails (IOError), float() rejects a token
\* (ValueError), or the lines become vertBoneWeights.
ReadWeights ==
    /\ pc = "read"
    /\ IF ~weightFile.readable
       THEN Raise("IOError") /\ UNCHANGED vertBoneWeights
       ELSE IF \E i \in 1..Len(weightFile.lines) : weightFile.lines[i] = <<>>
       THEN Raise("ValueError") /\ UNCHANGED vertBoneWeights
       ELSE /\ vertBoneWeights' = weightFile.lines
            /\ pc' = "map"
            /\ UNCHANGED err
    /\ UNCHANGED <<inputVars, influences, hostWeights, undoVars,
                   boneIndexToJointIndex, vertJointWeights, writeVars,
                   flatVars, autoVars>>

\* Lines 113 and 121-123: boneIndexToJointIndex once the loop has run, for a
\* list of nb >= numJoints - 1 entries: the bone ending at joint b + 1 goes
\* to that joint's parent, the entries past the last joint stay 0.
BoneToParentJoint(skel, nb) ==
    [b \in 1..nb |-> IF b < Len(skel) THEN At(skel, b)[2] ELSE 0]

\* Lines 100-123: the sizes, the assertion on them, and the bone-to-joint
\* map.  len(vertBoneWeights[0]) and boneIndexToJointIndex[jointIndex - 1]
\* raise IndexError on a file without lines and on too few columns.
BuildBoneMap ==
    /\ pc = "map"
    /\ IF vertBoneWeights = <<>>
       THEN Raise("IndexError")
            /\ UNCHANGED <<boneIndexToJointIndex, vertJointWeights>>
       ELSE IF ~AssertTuple(numBones = numJoints - 1)
       THEN Raise("DimensionMismatch")
            /\ UNCHANGED <<boneIndexToJointIndex, vertJointWeights>>
       ELSE IF numJoints - 1 > numBones
       THEN Raise("IndexError")
            /\ UNCHANGED <<boneIndexToJointIndex, vertJointWeights>>
       ELSE /\ boneIndexToJointIndex' = BoneToParentJoint(skelList, numBones)
            /\ vertJointWeights' = Repeat(Repeat(0, numJoints), numVertices)
            /\ pc' = "aggregate"
            /\ UNCHANGED err
    /\ UNCHANGED <<inputVars, influences, hostWeights, undoVars,
                   vertBoneWeights, writeVars, flatVars, autoVars>>

\* Mutation: a bone's value replaces what the joint holds.
Accumulate_Overwrite(jointValue, boneValue) == boneValue

\* Line 133: vertJointWeights[vertIndex][jointIndex] += boneValue
Accumulate(jointValue, boneValue) == jointValue + boneValue

RECURSIVE AddBones(_, _, _, _)
\* Lines 129-133 from bone b on (b counts from 1), for one vertex.
AddBones(jointWeights, boneWeights, map, b) ==
    IF b > Len(boneWeights)
    THEN jointWeights
    ELSE AddBones(SetAt(jointWeights, map[b],
                        Accumulate(At(jointWeights, map[b]), boneWeights[b])),
                  boneWeights, map, b + 1)

\* Lines 125-133.  A line longer than the first one raises IndexError at
\* line 132.
Aggregate ==
    /\ pc = "aggregate"
    /\ IF \E v \in 1..numVertices : ~AssertTuple(Normalized(vertBoneWeights[v]))
       THEN Raise("UnnormalizedWeights") /\ UNCHANGED vertJointWeights
       ELSE IF \E v \in 1..numVertices : Len(vertBoneWeights[v]) > numBones
       THEN Raise("IndexError") /\ UNCHANGED vertJointWeights
       ELSE /\ vertJointWeights' =
                [v \in 1..numVertices |->
                    AddBones(vertJointWeights[v], vertBoneWeights[v],
                             boneIndexToJointIndex, 1)]
            /\ pc' = "prune"
            /\ UNCHANGED err
    /\ UNCHANGED <<inputVars, influences, hostWeights, undoVars,
                   vertBoneWeights, boneIndexToJointIndex, writeVars,
                   flatVars, autoVars>>

\* Mutation: the weights are left as they are.
Pruned_Kept(w) == w

\* Line 145: skinPercent(pruneWeights=100, normalize=False) sets every
\* weight of the skin to zero.
Pruned(w) == ZeroWeights

\* Lines 145-147: the prune, then the choice of the write path.
PruneWeights ==
    /\ pc = "prune"
    /\ hostWeights' = Pruned(hostWeights)
    /\ pc' = IF confirm THEN "build" ELSE "loop"
    /\ UNCHANGED <<err, inputVars, influences, undoVars, vertBoneWeights,
                   boneIndexToJointIndex, vertJointWeights, writeVars,
                   flatVars, autoVars>>

(* --------------------------- the fast path ---------------------------- *)

\* Line 151: the slot of apiWeights written for (vertIndex, jointIndex).
SlotIndex(vIndex, jointIndex) == vIndex * numBones + jointIndex

RECURSIVE FillWeights(_, _)
\* Lines 149-151 from the k-th (vertex, joint) pair on, in loop order.  A set
\* past the end of the array leaves the array as it is.
FillWeights(arr, k) ==
    IF k >= numVertices * numJoints
    THEN arr
    ELSE LET v == k \div numJoints
             j == k % numJoints
             slot == SlotIndex(v, j)
         IN  FillWeights(IF slot < Len(arr)
                         THEN SetAt(arr, slot, At(At(vertJointWeights, v), j))
                         ELSE arr,
                         k + 1)

\* Some apiWeights.set of lines 149-151 is past the end of the array.
WeightsOutOfRange ==
    \E v \in 0..(numVertices - 1), j \in 0..(numJoints - 1) :
        SlotIndex(v, j) >= numWeights

RECURSIVE FillJointIndices(_, _, _)
\* Lines 153-154 from the influence of host index i on:
\* apiJointIndices.set(apiIndex, getNodeIndex(joint, pinocInfluences)) stores
\* the host index apiIndex at the joint's place in skelList.  getNodeIndex
\* gives None for an influence that is not in skelList, which set() rejects
\* (TypeError).  A place past the end raises when the host checks the index
\* (raises) and is dropped when it does not.
FillJointIndices(arr, i, raises) ==
    IF i >= Len(influences)
    THEN [err |-> "none", arr |-> arr]
    ELSE LET place == getNodeIndex(At(influences, i), pinocInfluences)
         IN  IF place = -1 THEN [err |-> "TypeError", arr |-> arr]
             ELSE IF place >= Len(arr)
             THEN IF raises THEN [err |-> "RuntimeError", arr |-> arr]
                  ELSE FillJointIndices(arr, i + 1, raises)
             ELSE FillJointIndices(SetAt(arr, place, i), i + 1, raises)

\* Lines 148-159: the arrays for setWeights.  What a set() past the end of an
\* array does is the host's: it raises (RuntimeError, kFailure) or it is
\* dropped.
BuildApiArrays ==
    /\ pc = "build"
    /\ \E raises \in BOOLEAN :
        LET w == FillWeights(Repeat(0, numWeights), 0)
            r == FillJointIndices(Repeat(0, numBones), 0, raises)
        IN  IF raises /\ WeightsOutOfRange
            THEN Raise("RuntimeError")
                 /\ UNCHANGED <<apiWeights, apiJointIndices>>
            ELSE IF r.err # "none"
            THEN Raise(r.err) /\ apiWeights' = w
                 /\ UNCHANGED apiJointIndices
            ELSE /\ apiWeights' = w
                 /\ apiJointIndices' = r.arr
                 /\ pc' = "undoOff"
                 /\ UNCHANGED err
    /\ UNCHANGED <<inputVars, influences, hostWeights, undoVars,
                   vertBoneWeights, boneIndexToJointIndex, vertJointWeights,
                   undoState, vertIndex, cancelled, flatVars, autoVars>>

\* Lines 160-163: the toggle is saved and undo is switched off.
DisableUndo ==
    /\ pc = "undoOff"
    /\ undoState' = undoInfo
    /\ undoInfo' = FALSE
    /\ pc' = "setWeights"
    /\ UNCHANGED <<err, inputVars, influences, hostWeights, undoFlushed,
                   vertBoneWeights, boneIndexToJointIndex, vertJointWeights,
                   apiWeights, apiJointIndices, vertIndex, cancelled,
                   flatVars, autoVars>>

\* The weight setWeights is given for vertex v and the influence of host
\* index i: the value at the last place of apiJointIndices that names i;
\* -1 when no place names it.
HandedWeight(v, i) ==
    LET places == {k \in 0..(Len(apiJointIndices) - 1) :
                        At(apiJointIndices, k) = i}
    IN  IF places = {} THEN -1
        ELSE LET k == CHOOSE x \in places : \A y \in places : y <= x
             IN  At(apiWeights, v * Len(apiJointIndices) + k)

\* MFnSkinCluster.setWeights over the first n vertices of the component.
SetWeightsOn(w, n) ==
    [v \in MeshVerts |->
        IF v >= n THEN w[v]
        ELSE [h \in Handles |->
                IF nodeIn(h, influences)
                   /\ HandedWeight(v, getNodeIndex(h, influences)) # -1
                THEN HandedWeight(v, getNodeIndex(h, influences))
                ELSE w[v][h]]]

\* Lines 165-170, setWeights returning.
SetWeightsOk ==
    /\ pc = "setWeights"
    /\ hostWeights' = SetWeightsOn(hostWeights, numVertices)
    /\ pc' = "finally"
    /\ UNCHANGED <<err, inputVars, influences, undoVars, vertBoneWeights,
                   boneIndexToJointIndex, vertJointWeights, writeVars,
                   flatVars, autoVars>>

\* Lines 165-170, setWeights failing after it wrote some of the vertices.
SetWeightsFails ==
    /\ pc = "setWeights"
    /\ \E n \in 0..(numVertices - 1) :
            hostWeights' = SetWeightsOn(hostWeights, n)
    /\ err' = "HostError"
    /\ pc' = "finally"
    /\ UNCHANGED <<inputVars, influences, undoVars, vertBoneWeights,
                   boneIndexToJointIndex, vertJointWeights, writeVars,
                   flatVars, autoVars>>

\* Mutation: undo is switched on, whatever it was.
RestoredUndo_On(saved) == TRUE

\* Line 173: the state cmds.undoInfo is given.
RestoredUndo(saved) == saved

\* Lines 171-173: the finally block; an error of setWeights goes on to the
\* caller after it.
FinallyRestoreUndo ==
    /\ pc = "finally"
    /\ undoFlushed' = TRUE
    /\ undoInfo' = RestoredUndo(undoState)
    /\ pc' = "done"
    /\ UNCHANGED <<err, inputVars, influences, hostWeights, vertBoneWeights,
                   boneIndexToJointIndex, vertJointWeights, writeVars,
                   flatVars, autoVars>>

(* ------------------------- the fallback path -------------------------- *)

\* Line 185: the joints that go into jointValues.
IsWritten(jointValue) == jointValue > 0

\* Lines 180-196 for one vertex: skinPercent(transformValue=...) sets the
\* weights of the joints in jointValues; the last entry of a joint wins.
VertexWritten(w, v) ==
    LET vertJoints == At(vertJointWeights, v)
    IN  [w EXCEPT ![v] =
            [h \in Handles |->
                LET places == {j \in 0..(Len(vertJoints) - 1) :
                                /\ At(pinocInfluences, j) = h
                                /\ IsWritten(At(vertJoints, j))}
                IN  IF places = {} THEN w[v][h]
                    ELSE At(vertJoints,
                            CHOOSE x \in places : \A y \in places : y <= x)]]

\* Lines 179 and 183-196: one pass of the loop that is not cancelled.
FallbackWriteVertex ==
    /\ pc = "loop"
    /\ vertIndex < numVertices
    /\ hostWeights' = VertexWritten(hostWeights, vertIndex)
    /\ vertIndex' = vertIndex + 1
    /\ UNCHANGED <<pc, err, inputVars, influences, undoVars, vertBoneWeights,
                   boneIndexToJointIndex, vertJointWeights, apiWeights,
                   apiJointIndices, undoState, cancelled, flatVars, autoVars>>

\* Lines 181-182 and 197: the progress window reports a cancel; the loop is
\* left and the call returns.
FallbackCancel ==
    /\ pc = "loop"
    /\ vertIndex < numVertices
    /\ cancelled' = TRUE
    /\ pc' = "done"
    /\ UNCHANGED <<err, inputVars, influences, hostWeights, undoVars,
                   vertBoneWeights, boneIndexToJointIndex, vertJointWeights,
                   apiWeights, apiJointIndices, undoState, vertIndex,
                   flatVars, autoVars>>

\* Lines 179 and 197: the loop has run over every vertex.
FallbackFinish ==
    /\ pc = "loop"
    /\ vertIndex = numVertices
    /\ pc' = "done"
    /\ UNCHANGED <<err, inputVars, influences, hostWeights, undoVars,
                   vertBoneWeights, boneIndexToJointIndex, vertJointWeights,
                   writeVars, flatVars, autoVars>>

(* ----------------------------- autoWeight ----------------------------- *)

\* The interchange files: the mesh file (objFilePath), the skeleton file
\* (skelFilePath) and the solver's output (attachment.out).
InterchangeFiles == {"obj", "skel", "out"}

\* What pinocchioWeightsImport may raise.
ImportErrors == {"IOError", "ValueError", "IndexError", "TypeError",
                 "RuntimeError", "HostError"}

AutoIdle ==
    /\ apc = "idle"
    /\ aerr = "none"
    /\ files = {}
    /\ KEEP_PINOC_INPUT_FILES = TRUE

\* The state when autoWeight reaches line 235.  With KEEP_PINOC_INPUT_FILES
\* (line 16; shipped True) the files have fixed names and may be left from
\* an earlier run; under the other policy the run starts with none of them.
InitAuto ==
    /\ apc = "objPath"
    /\ aerr = "none"
    /\ KEEP_PINOC_INPUT_FILES \in BOOLEAN
    /\ files \in IF KEEP_PINOC_INPUT_FILES
                 THEN SUBSET InterchangeFiles
                 ELSE {{}}

\* The exception e leaves the try blocks it is in.
AutoRaise(e, to) == aerr' = e /\ apc' = to

\* Lines 236-240: the mesh file's path; mkstemp creates the file, or fails
\* before the outer try is entered.
ObjPath ==
    /\ apc = "objPath"
    /\ \/ /\ KEEP_PINOC_INPUT_FILES
          /\ apc' = "skelPath"
          /\ UNCHANGED <<aerr, files>>
       \/ /\ ~KEEP_PINOC_INPUT_FILES
          /\ files' = files \cup {"obj"}
          /\ apc' = "skelPath"
          /\ UNCHANGED aerr
       \/ /\ ~KEEP_PINOC_INPUT_FILES
          /\ AutoRaise("OSError", "done")
          /\ UNCHANGED files
    /\ UNCHANGED <<KEEP_PINOC_INPUT_FILES, flatVars, importVars>>

\* Lines 242-246: the skeleton file's path, inside the outer try.
SkelPath ==
    /\ apc = "skelPath"
    /\ \/ /\ KEEP_PINOC_INPUT_FILES
          /\ apc' = "exportSkel"
          /\ UNCHANGED <<aerr, files>>
       \/ /\ ~KEEP_PINOC_INPUT_FILES
          /\ files' = files \cup {"skel"}
          /\ apc' = "exportSkel"
          /\ UNCHANGED aerr
       \/ /\ ~KEEP_PINOC_INPUT_FILES
          /\ AutoRaise("OSError", "finallyObj")
          /\ UNCHANGED files
    /\ UNCHANGED <<KEEP_PINOC_INPUT_FILES, flatVars, importVars>>

\* Lines 248-249 and 24-45: the skeleton export writes the skeleton file, or
\* fails in makePinocchioSkeletonList (before the file is opened) or in
\* open().
SkeletonExport ==
    /\ apc = "exportSkel"
    /\ \/ /\ files' = files \cup {"skel"}
          /\ apc' = "exportObj"
          /\ UNCHANGED aerr
       \/ /\ AutoRaise("RuntimeError", "finallySkel")
          /\ UNCHANGED files
       \/ /\ AutoRaise("IOError", "finallySkel")
          /\ UNCHANGED files
    /\ UNCHANGED <<KEEP_PINOC_INPUT_FILES, flatVars, importVars>>

\* Lines 250 and 47-66: the mesh export writes the mesh file, or fails
\* (TypeError of line 55, or the host's export) with or without the file.
ObjExport ==
    /\ apc = "exportObj"
    /\ \/ /\ files' = files \cup {"obj"}
          /\ apc' = "solver"
          /\ UNCHANGED aerr
       \/ /\ AutoRaise("TypeError", "finallySkel")
          /\ UNCHANGED files
       \/ /\ AutoRaise("RuntimeError", "finallySkel")
          /\ files' = files \cup {"obj"}
    /\ UNCHANGED <<KEEP_PINOC_INPUT_FILES, flatVars, importVars>>

\* Lines 252 and 212-218: the solver writes attachment.out and exits 0, or
\* check_call raises CalledProcessError on another exit status, the output
\* written or not.
RunPinocchioBin ==
    /\ apc = "solver"
    /\ \/ /\ files' = files \cup {"out"}
          /\ apc' = "import"
          /\ UNCHANGED aerr
       \/ /\ AutoRaise("CalledProcessError", "finallySkel")
          /\ \/ files' = files \cup {"out"}
             \/ UNCHANGED files
    /\ UNCHANGED <<KEEP_PINOC_INPUT_FILES, flatVars, importVars>>

\* Lines 253-255: the import returns or raises; it touches no file.
WeightsImport ==
    /\ apc = "import"
    /\ \/ UNCHANGED aerr
       \/ \E e \in ImportErrors : aerr' = e
    /\ apc' = "finallySkel"
    /\ UNCHANGED <<files, KEEP_PINOC_INPUT_FILES, flatVars, importVars>>

\* Mutation: the file is removed only when nothing was raised.
CleanedUp_OnSuccess(fs, path) ==
    IF ~KEEP_PINOC_INPUT_FILES /\ path \in fs /\ aerr = "none"
    THEN fs \ {path}
    ELSE fs

\* Lines 257-258 and 260-261:
\* if not KEEP_PINOC_INPUT_FILES and os.path.isfile(path): os.remove(path)
CleanedUp(fs, path) ==
    IF ~KEEP_PINOC_INPUT_FILES /\ path \in fs
    THEN fs \ {path}
    ELSE fs

\* Lines 256-258: the inner finally.
FinallySkel ==
    /\ apc = "finallySkel"
    /\ files' = CleanedUp(files, "skel")
    /\ apc' = "finallyObj"
    /\ UNCHANGED <<aerr, KEEP_PINOC_INPUT_FILES, flatVars, importVars>>

\* Lines 259-261: the outer finally; autoWeight returns or the exception
\* goes on to the caller.
FinallyObj ==
    /\ apc = "finallyObj"
    /\ files' = CleanedUp(files, "obj")
    /\ apc' = "done"
    /\ UNCHANGED <<aerr, KEEP_PINOC_INPUT_FILES, flatVars, importVars>>

(* --------------------------- specifications --------------------------- *)

\* makePinocchioSkeletonList on every hierarchy.
InitFlatten == InitFlatten_graph /\ ImportIdle /\ AutoIdle

NextFlatten == Flatten

SpecFlatten == InitFlatten /\ [][NextFlatten]_vars

\* pinocchioWeightsImport.
Init == FlatIdle /\ InitImport /\ AutoIdle

Next ==
    \/ EnsureInfluences
    \/ ReadWeights
    \/ BuildBoneMap
    \/ Aggregate
    \/ PruneWeights
    \/ BuildApiArrays
    \/ DisableUndo
    \/ SetWeightsOk
    \/ SetWeightsFails
    \/ FinallyRestoreUndo
    \/ FallbackWriteVertex
    \/ FallbackCancel
    \/ FallbackFinish

Spec == Init /\ [][Next]_vars

\* autoWeight from line 235 on.
NextAuto ==
    \/ ObjPath
    \/ SkelPath
    \/ SkeletonExport
    \/ ObjExport
    \/ RunPinocchioBin
    \/ WeightsImport
    \/ FinallySkel
    \/ FinallyObj

InitAutoWeight == FlatIdle /\ ImportIdle /\ InitAuto

SpecAuto == InitAutoWeight /\ [][NextAuto]_vars

(* ------------------------------- claims ------------------------------- *)

RECURSIVE SumOver(_, _)
\* The sum of f[x] over the x of the finite set S.
SumOver(S, f) ==
    IF S = {} THEN 0
    ELSE LET x == CHOOSE y \in S : TRUE
         IN  f[x] + SumOver(S \ {x}, f)

\* The weight file was read and every line has numJoints - 1 values.
WellFormedMatrix ==
    /\ vertBoneWeights # <<>>
    /\ \A v \in 1..numVertices : Len(vertBoneWeights[v]) = numJoints - 1

\* Every line of the matrix is normalized.
NormalizedMatrix ==
    \A v \in 1..numVertices : Normalized(vertBoneWeights[v])

\* The aggregation of lines 125-133 has run.
AggregationDone ==
    pc \notin {"ensure", "read", "map", "aggregate"} /\ WellFormedMatrix

\* The bones whose far joint has the joint of index j as its parent.
BonesOf(j) == {b \in 1..(numJoints - 1) : At(skelList, b)[2] = j}

\* C1: once the aggregation has run on a matrix with numJoints - 1 columns,
\* every joint's weight for a vertex is the sum of the vertex's weights over
\* the bones whose joint has that joint as its parent, and a vertex's joint
\* weights add up to what its bone weights add up to.
C1_Aggregation ==
    AggregationDone =>
        \A v \in 1..numVertices :
            /\ \A j \in 0..(numJoints - 1) :
                   At(vertJointWeights[v], j)
                       = SumOver(BonesOf(j), vertBoneWeights[v])
            /\ SumSeq(vertJointWeights[v]) = SumSeq(vertBoneWeights[v])

\* C1 witness: two bones of one joint both carry weight for a vertex, and
\* the joint holds their sum.
C1_Witness ==
    /\ AggregationDone
    /\ \E v \in 1..numVertices, j \in 0..(numJoints - 1) :
          /\ Cardinality({b \in BonesOf(j) : vertBoneWeights[v][b] > 0}) >= 2
          /\ At(vertJointWeights[v], j) = 2 * Unit

\* The host index of the influence that is the joint of skelList[j].
InfluenceIndexOf(j) == getNodeIndex(At(pinocInfluences, j), influences)

\* C2: when the arrays are handed to setWeights for a normalized matrix of
\* the right shape, every (vertex, joint) pair has a slot of its own inside apiWeights,
\* apiJointIndices has an entry for every joint of the skeleton, and the
\* weight handed over for a vertex and a joint's influence is the aggregated
\* weight.
C2_HandedWeights ==
    (pc = "setWeights" /\ WellFormedMatrix /\ NormalizedMatrix) =>
        /\ Len(apiJointIndices) = numJoints
        /\ \A v \in 0..(numVertices - 1), j \in 0..(numJoints - 1) :
              /\ SlotIndex(v, j) < Len(apiWeights)
              /\ \A v2 \in 0..(numVertices - 1), j2 \in 0..(numJoints - 1) :
                    SlotIndex(v, j) = SlotIndex(v2, j2) => v = v2 /\ j = j2
              /\ HandedWeight(v, InfluenceIndexOf(j))
                    = At(At(vertJointWeights, v), j)

\* C3: a call whose matrix has another number of columns than numJoints - 1
\* does not get past line 108: it ends there with DimensionMismatch, the
\* weights of the skin untouched.
C3_DimensionMismatch ==
    (/\ pc \notin {"ensure", "read", "map"}
     /\ vertBoneWeights # <<>>
     /\ numBones # numJoints - 1) =>
        /\ pc = "done"
        /\ err = "DimensionMismatch"
        /\ hostWeights = PriorWeights(origInfluences)

\* C4: a call whose matrix has the right shape and a line that is not
\* normalized does not get past line 128: it ends there with
\* UnnormalizedWeights, the weights of the skin untouched.
C4_UnnormalizedWeights ==
    (/\ pc \notin {"ensure", "read", "map", "aggregate"}
     /\ WellFormedMatrix
     /\ ~NormalizedMatrix) =>
        /\ pc = "done"
        /\ err = "UnnormalizedWeights"
        /\ hostWeights = PriorWeights(origInfluences)

\* The errors that come from the weight file.
WeightInputErrors == {"IOError", "ValueError", "IndexError",
                      "DimensionMismatch", "UnnormalizedWeights"}

\* C5: a call that ends with an error of its weight input leaves the skin as
\* it was: the same influences, the same weights.
C5_NoMutationOnError ==
    (pc = "done" /\ err \in WeightInputErrors) =>
        /\ influences = origInfluences
        /\ hostWeights = PriorWeights(origInfluences)

\* The index in the list l of the joint j.
ListIndex(l, j) == getNodeIndex(j, [i \in 1..Len(l) |-> l[i][1]])

\* C6: for a joint tree the list has every joint once, starts with the root
\* with parent index -1, gives every later entry the index of its parent
\* joint, which is before it, and keeps each joint's children in host order.
C6_Flatten ==
    (flat.done /\ IsTree) =>
        LET l == flat.list
        IN  /\ flat.err = "none"
            /\ Len(l) = Len(children)
            /\ \A j \in DOMAIN children : \E i \in 1..Len(l) : l[i][1] = j
            /\ l[1] = <<rootJoint, -1>>
            /\ \A i \in 1..(Len(l) - 1) :
                  /\ 0 <= At(l, i)[2]
                  /\ At(l, i)[2] < i
                  /\ At(l, i)[1] \in Range(children[At(l, At(l, i)[2])[1]])
            /\ \A j \in DOMAIN children :
                  \A a, b \in 1..Len(children[j]) :
                      a < b => ListIndex(l, children[j][a])
                                   < ListIndex(l, children[j][b])

\* C6 witness: a tree of three joints in which the root has two children,
\* named against list order, has been flattened.
C6_Witness ==
    /\ flat.done
    /\ IsTree
    /\ Len(flat.list) = 3
    /\ flat.list[2] = <<3, 0>>
    /\ flat.list[3] = <<2, 0>>

\* C7: on the fast path the call ends, returning or raising, with the undo
\* toggle as it was before the call; undo is off, and its earlier state
\* saved, while setWeights runs; after a failure of setWeights the undo
\* queue has been flushed.
C7_UndoRestored ==
    /\ (pc \in {"setWeights", "finally"}) =>
            (~undoInfo /\ undoState = origUndoInfo)
    /\ (pc = "done" /\ confirm) =>
            /\ undoInfo = origUndoInfo
            /\ (err = "HostError" => undoFlushed)

\* C7 witness: setWeights failed with undo on before the call, and the call
\* has ended with undo on again.
C7_Witness ==
    /\ pc = "done"
    /\ confirm
    /\ err = "HostError"
    /\ origUndoInfo
    /\ undoInfo
    /\ undoFlushed

\* The vertex v holds the aggregated weight on every joint of the skeleton.
HoldsNewWeights(v) ==
    \A j \in 0..(numJoints - 1) :
        hostWeights[v][At(pinocInfluences, j)] = At(At(vertJointWeights, v), j)

\* A cancel ended the fallback loop after at least one vertex.
CancelledMidway == pc = "done" /\ cancelled /\ vertIndex >= 1

\* The same, on a normalized matrix of the right shape.
CancelledMidwayOnValidInput ==
    CancelledMidway /\ WellFormedMatrix /\ NormalizedMatrix

\* C8 as stated: after a cancel no error is raised, the vertices done hold
\* their new weights and the others hold the weights they had before the
\* call.
C8_RestKeepPriorWeights ==
    CancelledMidwayOnValidInput =>
        /\ err = "none"
        /\ \A v \in 0..(vertIndex - 1) : HoldsNewWeights(v)
        /\ \A v \in MeshVerts :
              v >= vertIndex => hostWeights[v] = PriorWeights(origInfluences)[v]

\* C8 amended: after a cancel no error is raised, the vertices done hold
\* their new weights and the others hold weight zero on every influence, as
\* the prune of line 145 left them.
C8_RestIsPruned ==
    CancelledMidway =>
        /\ err = "none"
        /\ \A v \in 0..(vertIndex - 1) : HoldsNewWeights(v)
        /\ \A v \in MeshVerts :
              v >= vertIndex => \A h \in Handles : hostWeights[v][h] = 0

\* C8 witness: of two vertices the first was written, with a weight on some
\* joint, when the cancel came.
C8_Witness ==
    /\ CancelledMidwayOnValidInput
    /\ numVertices = 2
    /\ vertIndex = 1
    /\ \E h \in Handles : hostWeights[0][h] > 0

\* autoWeight has ended under the delete-on-completion policy.
EndedDeleting == apc = "done" /\ ~KEEP_PINOC_INPUT_FILES

\* C9 as stated: under delete-on-completion no interchange file is left
\* when autoWeight ends.
C9_NoFileLeft == EndedDeleting => files \cap InterchangeFiles = {}

\* C9 amended: under delete-on-completion neither the mesh file nor the
\* skeleton file is left when autoWeight ends, and autoWeight never removes
\* the solver's output file.
C9_InputFilesRemoved ==
    /\ [](EndedDeleting => files \cap {"obj", "skel"} = {})
    /\ [][("out" \in files) => ("out" \in files')]_vars

\* C9 witness: the solver failed after writing its output; both input files
\* are gone.
C9_Witness ==
    /\ EndedDeleting
    /\ aerr = "CalledProcessError"
    /\ files = {"out"}

\* C10: a traversal that reaches a joint a second time ends with
\* MalformedSkeleton.
C10_RejectsRevisit ==
    (flat.done /\ ~IsTree) => flat.err = "MalformedSkeleton"
=============================================================================
